---------------------------- MODULE Spec2Model ----------------------------
(***************************************************************************)
(* Model of gtsfm/loader/hilti_loader.py: the rig indexer, the constraint  *)
(* outlier filter, the stationary reclassifier, the pose-prior deriver and *)
(* the pair-set builder of HiltiLoader.                                    *)
(*                                                                         *)
(* Units.  Rotation angles are integers in micro-radians, translations are *)
(* integers in millimetres, covariance entries are integers in units of    *)
(* 1e-8.  Poses range over the subgroup of SE(3) that maps the z axis to   *)
(* itself: a rotation by th about z, optionally followed by the half turn  *)
(* about x (f = 1), and a translation by d along z.  The subgroup is       *)
(* closed under composition and inverse, is not commutative, and all its   *)
(* operations are exact on integers.                                       *)
(***************************************************************************)
EXTENDS Integers, Sequences, FiniteSets, TLC

VARIABLES
    cam_T_imu_poses,      \* self._cam_T_imu_poses: camera index -> Pose3
    cam2_J_imu_relative,  \* self._cam2_J_imu_relative: 6x6 adjoint of camTimu[2]
    num_rig_poses,        \* self.num_rig_poses
    fastlio_poses,        \* self._fastlio_poses: the odometry track (a list)
    constraints,          \* self._constraints: the final constraint dict
    all_constraints,      \* __init__'s local all_constraints
    filtered_constraints, \* __init__'s local filtered_constraints
    add_backbone,         \* self._add_backbone
    subsample,            \* self._subsample
    pc,                   \* "idle", "pdb" (get_relative_pose_priors sits in pdb.set_trace()), "done"
    unique_pairs,         \* get_relative_pose_priors' local pair set while it sits in the debugger
    op,                   \* the last operation called
    args,                 \* its arguments
    ret,                  \* its return value
    exc,                  \* the exception it raised ("" when it returned)
    branch,               \* which return statement the operation left by (0: none)
    kept_priors           \* what the caller kept of its last get_relative_pose_priors call

vars == << cam_T_imu_poses, cam2_J_imu_relative, num_rig_poses, fastlio_poses,
           constraints, all_constraints, filtered_constraints, add_backbone,
           subsample, pc, unique_pairs, op, args, ret, exc, branch, kept_priors >>

loaderVars == << cam_T_imu_poses, cam2_J_imu_relative, num_rig_poses, fastlio_poses,
                 constraints, all_constraints, filtered_constraints, add_backbone,
                 subsample >>

---------------------------------------------------------------------------
(* Program constants *)

NUM_CAMS == 5

\* TRANSLATION_THRESHOLD = 0.02 (metres), in millimetres
TRANSLATION_THRESHOLD == 20

\* ROTATION_THRESHOLD = np.deg2rad(0.5) = 8726.646... micro-radians.  An integer
\* n of micro-radians exceeds it exactly when n > 8726.
ROTATION_THRESHOLD == 8726

\* ERROR_MARGIN = 0.1 (metres), in millimetres
ERROR_MARGIN == 100

\* the tolerance 1e-6 of i1Ti2.equals(Pose3(), 1e-6), in micro-radians / micrometres
EQUALS_TOL == 1

Abs(x) == IF x < 0 THEN -x ELSE x

---------------------------------------------------------------------------
(* gtsam.Pose3 on the subgroup described above *)

\* Pose3(): the identity
Pose3Identity == [f |-> 0, th |-> 0, d |-> 0]

\* +1 when the rotation keeps the direction of z, -1 when it reverses it
Sign(p) == IF p.f = 0 THEN 1 ELSE -1

\* Pose3.__mul__ / compose: (R1, t1) (R2, t2) = (R1 R2, t1 + R1 t2)
Compose(p, q) ==
    [f |-> (p.f + q.f) % 2, th |-> p.th + Sign(p) * q.th, d |-> p.d + Sign(p) * q.d]

\* Pose3.inverse: (R^T, -R^T t)
Inverse(p) == IF p.f = 0 THEN [f |-> 0, th |-> -p.th, d |-> -p.d] ELSE p

\* Pose3.between: p^-1 q
Between(p, q) == Compose(Inverse(p), q)

\* the angle of a half turn, pi, in micro-radians (rounded up)
HalfTurn == 3141593

\* np.linalg.norm(Rot3.Logmap(p.rotation())): the rotation angle.  A rotation
\* about z followed by the half turn about x is a half turn about an axis in
\* the xy plane.
RotationNorm(p) == IF p.f = 1 THEN HalfTurn ELSE Abs(p.th)

\* np.linalg.norm(p.translation())
TranslationNorm(p) == Abs(p.d)

\* p.equals(Pose3(), 1e-6): every entry of the rotation matrix and of the
\* translation within 1e-6 of the identity's.  |sin th| <= 1e-6 iff |th| <= 1
\* micro-radian; the translation is compared in micrometres.
EqualsIdentity(p) ==
    /\ p.f = 0
    /\ Abs(p.th) <= EQUALS_TOL
    /\ Abs(p.d) * 1000 <= EQUALS_TOL

---------------------------------------------------------------------------
(* 6x6 matrices (numpy), rotation coordinates first, translation second *)

Idx6 == 1..6

MatMul(A, B) ==
    [i \in Idx6 |-> [j \in Idx6 |->
        A[i][1] * B[1][j] + A[i][2] * B[2][j] + A[i][3] * B[3][j]
        + A[i][4] * B[4][j] + A[i][5] * B[5][j] + A[i][6] * B[6][j]]]

Transpose(A) == [i \in Idx6 |-> [j \in Idx6 |-> A[j][i]]]

\* np.diag([r, r, r, t, t, t])
Diag6(r, t) ==
    [i \in Idx6 |-> [j \in Idx6 |-> IF i # j THEN 0 ELSE IF i <= 3 THEN r ELSE t]]

\* Pose3.AdjointMap: [[R, 0], [skew(t) R, R]], for a pose with th = 0 and a
\* translation of k whole metres: R = diag(1, s, s), skew(t) R =
\* [[0, -k s, 0], [k, 0, 0], [0, 0, 0]].
AdjointMap(p) ==
    LET s == Sign(p)
        k == p.d \div 1000
    IN  << << 1, 0, 0,       0, 0, 0 >>,
           << 0, s, 0,       0, 0, 0 >>,
           << 0, 0, s,       0, 0, 0 >>,
           << 0, -(k * s), 0, 1, 0, 0 >>,
           << k, 0, 0,       0, s, 0 >>,
           << 0, 0, 0,       0, 0, s >> >>

\* np.eye(6) * 1e-8
HARD_POSE_PRIOR_COVARIANCE == Diag6(1, 1)

\* np.eye(6) * 1e-7
STATIONARY_POSE_PRIOR_COVARIANCE == Diag6(10, 10)

\* np.diag([deg2rad(30)] * 3 + [1] * 3): deg2rad(30) = 0.52359878
CAM2_BACKBONE_POSE_PRIOR_COVARIANCE == Diag6(52359878, 100000000)

\* np.diag([rot_sigma] * 3 + [trans_sigma] * 3), rot_sigma = deg2rad(60) =
\* 1.04719755, trans_sigma = 10
FILTERED_COVARIANCE == Diag6(104719755, 1000000000)

---------------------------------------------------------------------------
(* Rig indexer *)

camera_from_image(index) == index % NUM_CAMS

rig_from_image(index) == index \div NUM_CAMS

\* image_from_rig_and_camera with its two arguments taken the other way round
image_from_rig_and_camera_swapped(rig_index, camera_idx) ==
    camera_idx * NUM_CAMS + rig_index

image_from_rig_and_camera(rig_index, camera_idx) == rig_index * NUM_CAMS + camera_idx

---------------------------------------------------------------------------
(* Constraint, PosePrior and Python dicts *)

\* gtsfm.common.constraint.Constraint(a, b, aTb, cov, counts)
Constraint(a, b, aTb, cov, counts) ==
    [a |-> a, b |-> b, aTb |-> aTb, cov |-> cov, counts |-> counts]

\* PosePrior(value, covariance, type)
PosePrior(value, covariance, type) ==
    [value |-> value, covariance |-> covariance, type |-> type]

\* A dict is the sequence of its items [key, val] in insertion order, the keys
\* distinct.
Keys(dict) == {dict[i].key : i \in 1..Len(dict)}

\* dict[key]
Lookup(dict, key) == dict[CHOOSE i \in 1..Len(dict) : dict[i].key = key].val

\* dict[key] = val: a present key keeps its place, a new key goes last
DictSet(dict, key, val) ==
    IF key \in Keys(dict)
    THEN [i \in 1..Len(dict) |-> IF dict[i].key = key THEN [key |-> key, val |-> val]
                                                      ELSE dict[i]]
    ELSE Append(dict, [key |-> key, val |-> val])

Min(x, y) == IF x <= y THEN x ELSE y
Max(x, y) == IF x >= y THEN x ELSE y


\* the canonical (min, max) key of lines 160 and 166
Canonical(key) == << Min(key[1], key[2]), Max(key[1], key[2]) >>

---------------------------------------------------------------------------
(* HiltiLoader._update_stationary_constraints *)

\* the test of lines 139-142 with >= for >
NotStationaryAtThreshold(constraint) ==
    \/ RotationNorm(constraint.aTb) > ROTATION_THRESHOLD
    \/ TranslationNorm(constraint.aTb) >= TRANSLATION_THRESHOLD

\* the test of lines 139-142 without its rotation half
NotStationaryTranslationOnly(constraint) ==
    TranslationNorm(constraint.aTb) > TRANSLATION_THRESHOLD

\* the test of lines 139-142: "not stationary if either rotation or
\* translation is high enough"
NotStationary(constraint) ==
    \/ RotationNorm(constraint.aTb) > ROTATION_THRESHOLD
    \/ TranslationNorm(constraint.aTb) > TRANSLATION_THRESHOLD

\* lines 146-148 with the observation count raised by one
StationaryConstraintCounting(constraint) ==
    Constraint(constraint.a, constraint.b, Pose3Identity,
               STATIONARY_POSE_PRIOR_COVARIANCE, constraint.counts + 1)

\* lines 146-148 with the covariance of the constraint kept
StationaryConstraintKeepingCovariance(constraint) ==
    Constraint(constraint.a, constraint.b, Pose3Identity, constraint.cov,
               constraint.counts)

\* lines 146-148
StationaryConstraint(constraint) ==
    Constraint(constraint.a, constraint.b, Pose3Identity,
               STATIONARY_POSE_PRIOR_COVARIANCE, constraint.counts)

update_stationary_constraints(cs) ==
    [i \in 1..Len(cs) |->
        IF NotStationary(cs[i].val)
        THEN cs[i]
        ELSE [key |-> cs[i].key, val |-> StationaryConstraint(cs[i].val)]]

---------------------------------------------------------------------------
(* HiltiLoader._filter_outlier_constraints *)

\* lines 158-162: the dict constraint_magnitudes.  Iterating in insertion order,
\* a later item with the same canonical key overwrites an earlier one.
constraint_magnitudes(cs) ==
    [k \in {Canonical(key) : key \in Keys(cs)} |->
        LET last == CHOOSE i \in 1..Len(cs) :
                        /\ Canonical(cs[i].key) = k
                        /\ \A j \in (i + 1)..Len(cs) : Canonical(cs[j].key) # k
        IN  TranslationNorm(cs[last].val.aTb)]

\* lines 164-169
is_higher_step_magnitude_lesser(a, b, all_magnitudes, step_size) ==
    LET c == Min(a, b)
        d == Max(a, b)
        this_magnitude == all_magnitudes[<< c, d >>]
    IN  /\ << c, d + step_size >> \in DOMAIN all_magnitudes
        /\ this_magnitude - all_magnitudes[<< c, d + step_size >>] > ERROR_MARGIN

\* lines 184-186
FilteredConstraint(constraint) ==
    Constraint(constraint.a, constraint.b, constraint.aTb, FILTERED_COVARIANCE,
               constraint.counts)

\* lines 175-188: the item the loop stores for the item it
FilteredItem(it, all_magnitudes) ==
    LET a == it.key[1]
        b == it.key[2]
    IN  IF Abs(a - b) # 1
        THEN it
        ELSE IF \/ is_higher_step_magnitude_lesser(a, b, all_magnitudes, 1)
                \/ is_higher_step_magnitude_lesser(a, b, all_magnitudes, 2)
             THEN [key |-> it.key, val |-> FilteredConstraint(it.val)]
             ELSE it

\* _filter_outlier_constraints as its docstring has it: the outliers removed
filter_outlier_constraints_removing(cs) ==
    LET magnitudes == constraint_magnitudes(cs)
    IN  SelectSeq(cs, LAMBDA it : FilteredItem(it, magnitudes) = it)

filter_outlier_constraints(cs) ==
    LET magnitudes == constraint_magnitudes(cs)
    IN  [i \in 1..Len(cs) |-> FilteredItem(cs[i], magnitudes)]

\* _filter_outlier_constraints writing its result into the dict it was given
constraints_after_filter_in_place(cs) == filter_outlier_constraints(cs)

\* lines 158-188 store into constraint_magnitudes and filtered_constraints
\* only: the dict the method was given, and every Constraint in it, is after
\* the call what it was before
constraints_after_filter(cs) == cs

\* _update_stationary_constraints rewriting the constraints of the dict it was given
constraints_after_update_in_place(cs) == update_stationary_constraints(cs)

\* lines 133-149 store into updated_constraints only: the dict the method was
\* given, and every Constraint in it, is after the call what it was before
constraints_after_update(cs) == cs

---------------------------------------------------------------------------
(* HiltiLoader.__load_constraints, lines 124-128, applied to the list that    *)
(* PoseSlam.filter_constraints returned                                       *)

RECURSIVE DictOfList(_)
DictOfList(list) ==
    IF list = << >> THEN << >>
    ELSE LET front == DictOfList(SubSeq(list, 1, Len(list) - 1))
             c == list[Len(list)]
         IN  DictSet(front, << c.a, c.b >>, c)

load_constraints(list, numRigPoses) ==
    DictOfList(SelectSeq(list, LAMBDA c : c.a < numRigPoses /\ c.b < numRigPoses))

---------------------------------------------------------------------------
(* HiltiLoader.get_camera_pose and get_relative_pose_prior *)

\* Optional results: << >> is None, << x >> is the value x.
None == << >>
Some(x) == << x >>

Returned(value, b) == [ret |-> value, exc |-> "", branch |-> b]
Raised(name, b) == [ret |-> None, exc |-> name, branch |-> b]

\* lines 351-357; self._w_T_imu = dict(enumerate(self._fastlio_poses)) has the
\* keys 0 .. len - 1, and a Python list is indexed from 0
get_camera_pose(index) ==
    LET rig_idx == rig_from_image(index)
        cam_idx == camera_from_image(index)
    IN  IF rig_idx \in 0..(Len(fastlio_poses) - 1)
        THEN Returned(Some(Compose(fastlio_poses[rig_idx + 1],
                                   Inverse(cam_T_imu_poses[cam_idx]))), 1)
        ELSE Returned(None, 2)

\* lines 379-382
SameRigPrior(cam_idx_for_i1, cam_idx_for_i2) ==
    PosePrior(Compose(cam_T_imu_poses[cam_idx_for_i1],
                      Inverse(cam_T_imu_poses[cam_idx_for_i2])),
              HARD_POSE_PRIOR_COVARIANCE, "HARD_CONSTRAINT")

\* line 386 and line 399
InCam2Frame(imui1_T_imui2) ==
    Compose(Compose(cam_T_imu_poses[2], imui1_T_imui2), Inverse(cam_T_imu_poses[2]))

\* line 387 without the transpose of its last factor
PropagatedCovarianceUntransposed(cov) ==
    MatMul(MatMul(cam2_J_imu_relative, cov), cam2_J_imu_relative)

\* line 387
PropagatedCovariance(cov) ==
    MatMul(MatMul(cam2_J_imu_relative, cov), Transpose(cam2_J_imu_relative))

\* lines 384-393 without the test of line 390
ConstraintPriorAlwaysSoft(constraint) ==
    PosePrior(InCam2Frame(constraint.aTb), PropagatedCovariance(constraint.cov),
              "SOFT_CONSTRAINT")

\* lines 384-393
ConstraintPrior(constraint) ==
    LET i1Ti2 == InCam2Frame(constraint.aTb)
        cov_i1Ti2 == PropagatedCovariance(constraint.cov)
    IN  IF EqualsIdentity(i1Ti2)
        THEN PosePrior(i1Ti2, cov_i1Ti2, "HARD_CONSTRAINT")
        ELSE PosePrior(i1Ti2, cov_i1Ti2, "SOFT_CONSTRAINT")

\* lines 396-403 with the two poses of line 398 exchanged
BackbonePriorReversed(rig_idx_for_i1, rig_idx_for_i2) ==
    PosePrior(InCam2Frame(Between(fastlio_poses[rig_idx_for_i2 + 1],
                                  fastlio_poses[rig_idx_for_i1 + 1])),
              CAM2_BACKBONE_POSE_PRIOR_COVARIANCE, "SOFT_CONSTRAINT")

\* lines 396-403, both rig indices inside the list
BackbonePrior(rig_idx_for_i1, rig_idx_for_i2) ==
    PosePrior(InCam2Frame(Between(fastlio_poses[rig_idx_for_i1 + 1],
                                  fastlio_poses[rig_idx_for_i2 + 1])),
              CAM2_BACKBONE_POSE_PRIOR_COVARIANCE, "SOFT_CONSTRAINT")

\* lines 373-405 with the constraint branch tried before the same-rig branch
get_relative_pose_prior_constraint_first(i1, i2) ==
    LET rig_idx_for_i1 == rig_from_image(i1)
        rig_idx_for_i2 == rig_from_image(i2)
        cam_idx_for_i1 == camera_from_image(i1)
        cam_idx_for_i2 == camera_from_image(i2)
    IN  IF /\ cam_idx_for_i1 = 2
           /\ cam_idx_for_i2 = 2
           /\ << rig_idx_for_i1, rig_idx_for_i2 >> \in Keys(constraints)
        THEN Returned(Some(ConstraintPrior(
                 Lookup(constraints, << rig_idx_for_i1, rig_idx_for_i2 >>))), 2)
        ELSE IF rig_idx_for_i1 = rig_idx_for_i2
        THEN Returned(Some(SameRigPrior(cam_idx_for_i1, cam_idx_for_i2)), 1)
        ELSE IF cam_idx_for_i1 = 2 /\ cam_idx_for_i2 = 2
        THEN IF /\ rig_idx_for_i1 < Len(fastlio_poses)
                /\ rig_idx_for_i2 < Len(fastlio_poses)
             THEN Returned(Some(BackbonePrior(rig_idx_for_i1, rig_idx_for_i2)), 3)
             ELSE Raised("IndexError", 3)
        ELSE Returned(None, 4)

\* lines 373-405 with "or" for "and" in the test of line 394
get_relative_pose_prior_either_cam2(i1, i2) ==
    LET rig_idx_for_i1 == rig_from_image(i1)
        rig_idx_for_i2 == rig_from_image(i2)
        cam_idx_for_i1 == camera_from_image(i1)
        cam_idx_for_i2 == camera_from_image(i2)
    IN  IF rig_idx_for_i1 = rig_idx_for_i2
        THEN Returned(Some(SameRigPrior(cam_idx_for_i1, cam_idx_for_i2)), 1)
        ELSE IF /\ cam_idx_for_i1 = 2
                /\ cam_idx_for_i2 = 2
                /\ << rig_idx_for_i1, rig_idx_for_i2 >> \in Keys(constraints)
        THEN Returned(Some(ConstraintPrior(
                 Lookup(constraints, << rig_idx_for_i1, rig_idx_for_i2 >>))), 2)
        ELSE IF cam_idx_for_i1 = 2 \/ cam_idx_for_i2 = 2
        THEN IF /\ rig_idx_for_i1 < Len(fastlio_poses)
                /\ rig_idx_for_i2 < Len(fastlio_poses)
             THEN Returned(Some(BackbonePrior(rig_idx_for_i1, rig_idx_for_i2)), 3)
             ELSE Raised("IndexError", 3)
        ELSE Returned(None, 4)

\* lines 373-405.  Indexing self._fastlio_poses past its end raises IndexError.
get_relative_pose_prior(i1, i2) ==
    LET rig_idx_for_i1 == rig_from_image(i1)
        rig_idx_for_i2 == rig_from_image(i2)
        cam_idx_for_i1 == camera_from_image(i1)
        cam_idx_for_i2 == camera_from_image(i2)
    IN  IF rig_idx_for_i1 = rig_idx_for_i2
        THEN Returned(Some(SameRigPrior(cam_idx_for_i1, cam_idx_for_i2)), 1)
        ELSE IF /\ cam_idx_for_i1 = 2
                /\ cam_idx_for_i2 = 2
                /\ << rig_idx_for_i1, rig_idx_for_i2 >> \in Keys(constraints)
        THEN Returned(Some(ConstraintPrior(
                 Lookup(constraints, << rig_idx_for_i1, rig_idx_for_i2 >>))), 2)
        ELSE IF cam_idx_for_i1 = 2 /\ cam_idx_for_i2 = 2
        THEN IF /\ rig_idx_for_i1 < Len(fastlio_poses)
                /\ rig_idx_for_i2 < Len(fastlio_poses)
             THEN Returned(Some(BackbonePrior(rig_idx_for_i1, rig_idx_for_i2)), 3)
             ELSE Raised("IndexError", 3)
        ELSE Returned(None, 4)

---------------------------------------------------------------------------
(* HiltiLoader.get_relative_pose_priors *)

\* range(start, stop, step)
Range(start, stop, step) == {x \in start..(stop - 1) : (x - start) % step = 0}

\* lines 425-430 with a star on every rig, whatever the subsampling step
StarPairsEveryRig ==
    UNION {
        {<< image_from_rig_and_camera(rig_index, cam_idx),
            image_from_rig_and_camera(rig_index, 2) >> : cam_idx \in {0, 1}}
        \cup
        {<< image_from_rig_and_camera(rig_index, 2),
            image_from_rig_and_camera(rig_index, cam_idx) >> : cam_idx \in {3, 4}}
        : rig_index \in Range(0, num_rig_poses, 1)}

\* lines 425-430
StarPairs ==
    UNION {
        {<< image_from_rig_and_camera(rig_index, cam_idx),
            image_from_rig_and_camera(rig_index, 2) >> : cam_idx \in {0, 1}}
        \cup
        {<< image_from_rig_and_camera(rig_index, 2),
            image_from_rig_and_camera(rig_index, cam_idx) >> : cam_idx \in {3, 4}}
        : rig_index \in Range(0, num_rig_poses, subsample)}

\* lines 433-434 with every pair put in (min, max) order
ConstraintPairsCanonical ==
    {<< image_from_rig_and_camera(Min(key[1], key[2]), 2),
        image_from_rig_and_camera(Max(key[1], key[2]), 2) >>
        : key \in Keys(constraints)}

\* lines 433-434 with the pairs taken on camera 0
ConstraintPairsOnCamera0 ==
    {<< image_from_rig_and_camera(key[1], 0), image_from_rig_and_camera(key[2], 0) >>
        : key \in Keys(constraints)}

\* lines 433-434
ConstraintPairs ==
    {<< image_from_rig_and_camera(key[1], 2), image_from_rig_and_camera(key[2], 2) >>
        : key \in Keys(constraints)}

\* lines 437-441 with the subsampling step of the star taken for the backbone too
BackbonePairsSubsampled ==
    IF add_backbone
    THEN {<< image_from_rig_and_camera(a, 2), image_from_rig_and_camera(a + 1, 2) >>
            : a \in Range(0, num_rig_poses - 1, subsample)}
    ELSE {}

\* lines 437-441 without the test of the flag
BackbonePairsAlways ==
    {<< image_from_rig_and_camera(a, 2), image_from_rig_and_camera(a + 1, 2) >>
        : a \in Range(0, num_rig_poses - 1, 1)}

\* lines 437-441 with the loop stopping one rig early
BackbonePairsShort ==
    IF add_backbone
    THEN {<< image_from_rig_and_camera(a, 2), image_from_rig_and_camera(a + 1, 2) >>
            : a \in Range(0, num_rig_poses - 2, 1)}
    ELSE {}

\* lines 437-441
BackbonePairs ==
    IF add_backbone
    THEN {<< image_from_rig_and_camera(a, 2), image_from_rig_and_camera(a + 1, 2) >>
            : a \in Range(0, num_rig_poses - 1, 1)}
    ELSE {}

\* lines 423-443 with the pairs left out that the caller already holds a prior for
EnumeratedPairsNotKept ==
    (StarPairs \cup ConstraintPairs \cup BackbonePairs)
    \ (IF kept_priors # << >> /\ kept_priors[1].exc = ""
        THEN DOMAIN kept_priors[1].ret ELSE {})

\* lines 423-443: the set the method holds when it reaches pdb.set_trace()
EnumeratedPairs == StarPairs \cup ConstraintPairs \cup BackbonePairs

\* lines 449-452 over the pair set: the dict of the priors that are not None,
\* or the exception of the first derivation that raises
PriorsOf(pairs) ==
    LET optional_priors == [pair \in pairs |-> get_relative_pose_prior(pair[1], pair[2])]
    IN  IF \E pair \in pairs : optional_priors[pair].exc # ""
        THEN Raised("IndexError", 0)
        ELSE Returned(
                [pair \in {q \in pairs : optional_priors[q].ret # None} |->
                    optional_priors[pair].ret[1]], 0)

---------------------------------------------------------------------------
(* Bounds and input sets *)

\* the largest number of rig poses of a loader
MaxRigs == 2

\* the largest number of records PoseSlam.filter_constraints returns
MaxRecords == 2

\* the largest image index handed to the rig indexer
MaxImageIndex == 60

P(f, th, d) == [f |-> f, th |-> th, d |-> d]

Cams == 0..(NUM_CAMS - 1)

\* Two calibration tables.  The reference camera's extrinsic has th = 0 and a
\* translation of whole metres (the domain of AdjointMap).
CalibA ==
    [c \in Cams |-> CASE c = 0 -> P(0, 3000, 100)
                      [] c = 1 -> P(0, -2000, 50)
                      [] c = 2 -> P(1, 0, 1000)
                      [] c = 3 -> P(1, 4000, -200)
                      [] c = 4 -> P(0, 0, 0)]

CalibB ==
    [c \in Cams |-> CASE c = 0 -> P(1, 0, 0)
                      [] c = 1 -> P(0, 1500, -30)
                      [] c = 2 -> P(0, 0, 2000)
                      [] c = 3 -> P(0, 0, 2000)
                      [] c = 4 -> P(1, 500, 70)]

Calibrations == {CalibA, CalibB}

\* Two odometry tracks, as long as asked
TrackA(len) == [r \in 1..len |-> P((r - 1) % 2, 1000 * (r - 1), 700 * (r - 1) + 10)]
TrackB(len) == [r \in 1..len |-> P(0, -500 * (r - 1), 40 * (r - 1))]

\* the tracks a loader of n rig poses may read: one pose per rig, or one short
Tracks(n) == {TrackA(n), TrackB(n)} \cup (IF n > 1 THEN {TrackA(n - 1)} ELSE {})

\* a measured covariance: symmetric, not diagonal
RawCov ==
    << << 400,  20,   0,    0,    0,    0 >>,
       <<  20, 500,   0,    0,   30,    0 >>,
       <<   0,   0, 600,    0,    0,    0 >>,
       <<   0,   0,   0, 2500,    0,   50 >>,
       <<   0,  30,   0,    0, 3600,    0 >>,
       <<   0,   0,   0,   50,    0, 4900 >> >>

\* the transforms of the records: at rest, moving, and turned over
RecordPoses == {P(0, 100, 5), P(0, 20000, 500), P(1, 0, 300)}

\* the records of the constraints file that PoseSlam.filter_constraints keeps
Records ==
    {Constraint(a, b, aTb, RawCov, a + 2 * b + 1) :
        a \in 0..(MaxRigs - 1), b \in 0..(MaxRigs - 1), aTb \in RecordPoses}

RecordLists == UNION {[1..n -> Records] : n \in 0..MaxRecords}

---------------------------------------------------------------------------
(* The loader: HiltiLoader.__init__ and its methods *)

\* lines 84-117: the state __init__ leaves, from the calibration it loads, the
\* number of rig poses on disk (capped by max_length), the odometry track it
\* reads, the list PoseSlam.filter_constraints returns, and its two flags
InitFrom(calibration, n, track, list, backbone, step) ==
    /\ cam_T_imu_poses = calibration
    /\ cam2_J_imu_relative = AdjointMap(calibration[2])
    /\ num_rig_poses = n
    /\ fastlio_poses = track
    /\ all_constraints = load_constraints(list, n)
    /\ filtered_constraints = filter_outlier_constraints(all_constraints)
    /\ constraints = update_stationary_constraints(filtered_constraints)
    /\ add_backbone = backbone
    /\ subsample = step
    /\ pc = "idle"
    /\ unique_pairs = {}
    /\ op = ""
    /\ args = << >>
    /\ ret = None
    /\ exc = ""
    /\ branch = 0
    /\ kept_priors = None

Init ==
    \E calibration \in Calibrations, n \in 1..MaxRigs, list \in RecordLists,
       backbone \in BOOLEAN, step \in {1, 2} :
        \E track \in Tracks(n) :
            InitFrom(calibration, n, track, list, backbone, step)

\* len(self)
LoaderLen == num_rig_poses * NUM_CAMS

Images == 0..(LoaderLen - 1)

Finish(name, arguments, result) ==
    /\ pc' = "done"
    /\ op' = name
    /\ args' = arguments
    /\ ret' = result.ret
    /\ exc' = result.exc
    /\ branch' = result.branch

GetRelativePosePrior(i1, i2) ==
    /\ pc = "idle"
    /\ Finish("get_relative_pose_prior", << i1, i2 >>, get_relative_pose_prior(i1, i2))
    /\ UNCHANGED << loaderVars, unique_pairs, kept_priors >>

GetCameraPose(index) ==
    /\ pc = "idle"
    /\ Finish("get_camera_pose", << index >>, get_camera_pose(index))
    /\ UNCHANGED << loaderVars, unique_pairs, kept_priors >>

\* get_relative_pose_priors up to line 447: the pairs are enumerated and the
\* method stops in pdb.set_trace(), waiting for a debugger command
GetRelativePosePriorsEnter ==
    /\ pc = "idle"
    /\ pc' = "pdb"
    /\ unique_pairs' = EnumeratedPairs
    /\ op' = "get_relative_pose_priors"
    /\ args' = << >>
    /\ ret' = None
    /\ exc' = ""
    /\ branch' = 0
    /\ UNCHANGED << loaderVars, kept_priors >>

\* the debugger is told to continue: lines 449-452
PdbContinue ==
    /\ pc = "pdb"
    /\ unique_pairs' = {}
    /\ Finish("get_relative_pose_priors", << >>, PriorsOf(unique_pairs))
    /\ UNCHANGED << loaderVars, kept_priors >>

\* the caller takes the result; the loader is ready for the next call
Return ==
    /\ pc = "done"
    /\ pc' = "idle"
    /\ op' = ""
    /\ args' = << >>
    /\ ret' = None
    /\ exc' = ""
    /\ branch' = 0
    /\ UNCHANGED << loaderVars, unique_pairs, kept_priors >>

Next ==
    \/ \E i1 \in Images, i2 \in Images : GetRelativePosePrior(i1, i2)
    \/ \E index \in Images : GetCameraPose(index)
    \/ GetRelativePosePriorsEnter
    \/ PdbContinue
    \/ Return

Spec == Init /\ [][Next]_vars

---------------------------------------------------------------------------
(* The rig indexer on its own *)

InitIndex == InitFrom(CalibA, 1, TrackA(1), << >>, TRUE, 1)

CameraFromImage(index) ==
    /\ pc = "idle"
    /\ Finish("camera_from_image", << index >>, Returned(camera_from_image(index), 0))
    /\ UNCHANGED << loaderVars, unique_pairs, kept_priors >>

RigFromImage(index) ==
    /\ pc = "idle"
    /\ Finish("rig_from_image", << index >>, Returned(rig_from_image(index), 0))
    /\ UNCHANGED << loaderVars, unique_pairs, kept_priors >>

ImageFromRigAndCamera(rig_index, camera_idx) ==
    /\ pc = "idle"
    /\ Finish("image_from_rig_and_camera", << rig_index, camera_idx >>,
              Returned(image_from_rig_and_camera(rig_index, camera_idx), 0))
    /\ UNCHANGED << loaderVars, unique_pairs, kept_priors >>

NextIndex ==
    \/ \E index \in 0..MaxImageIndex : CameraFromImage(index)
    \/ \E index \in 0..MaxImageIndex : RigFromImage(index)
    \/ \E rig_index \in 0..(MaxImageIndex \div NUM_CAMS), camera_idx \in Cams :
          ImageFromRigAndCamera(rig_index, camera_idx)
    \/ Return

SpecIndex == InitIndex /\ [][NextIndex]_vars

---------------------------------------------------------------------------
(* The two constraint stages on their own: a loader of several rigs whose   *)
(* _filter_outlier_constraints and _update_stationary_constraints are called *)
(* on the dict it loaded and on what the previous call returned              *)

\* the rig indices of the stage inputs are 0 .. MaxStageRig
MaxStageRig == 4

\* the largest number of items of a dict that exercises the outlier filter
MaxFilterItems == 3

\* the largest number of items of a dict that exercises the reclassifier
MaxStationaryItems == 2

\* translations of 5.0, 4.8 and 4.9 metres (the last one pointing backwards)
MagnitudePoses == {P(0, 0, 5000), P(0, 0, 4800), P(0, 0, -4900)}

\* transforms around the two thresholds: rotation 0.01 rad with translation
\* 0.005 m; rotation 0.008 rad with translation 0.005 m; the largest rotation
\* not above the threshold with a translation equal to its threshold; one
\* micro-radian more; one millimetre more; a half turn in place
ThresholdPoses ==
    {P(0, 10000, 5), P(0, -8000, 5), P(0, 8726, 20), P(0, 8727, 20), P(0, 8726, -21),
     P(1, 0, 0)}

StageRecords(rigs, poses) ==
    {Constraint(a, b, aTb, RawCov, a + 2 * b + 1) : a \in rigs, b \in rigs, aTb \in poses}

\* (a, b) before (c, d) in the order of the canonical keys
CanonicalLeq(k1, k2) ==
    LET c1 == Canonical(k1)
        c2 == Canonical(k2)
    IN  c1[1] < c2[1] \/ (c1[1] = c2[1] /\ c1[2] <= c2[2])

\* Lists that give the dicts of the stage inputs.  Python compares dicts
\* without their order, and the order of a dict's items reaches the stages
\* only where two items share a canonical key (line 162): the lists are
\* taken sorted by canonical key, with both orders of (a, b) and (b, a).
StageLists(records, n) ==
    {list \in UNION {[1..m -> records] : m \in 0..n} :
        /\ \A i \in 1..Len(list), j \in 1..Len(list) :
              i < j => /\ << list[i].a, list[i].b >> # << list[j].a, list[j].b >>
                       /\ CanonicalLeq(<< list[i].a, list[i].b >>,
                                       << list[j].a, list[j].b >>)}

\* transforms that meet both stages: translations of 5.0 and 4.8 metres, and a
\* rig at rest (rotation 0.0001 rad, translation 0.005 m)
PipelinePoses == {P(0, 0, 5000), P(0, 0, 4800), P(0, 100, 5)}

StageInputs ==
    StageLists(StageRecords(0..MaxStageRig, MagnitudePoses), MaxFilterItems)
    \cup StageLists(StageRecords(0..1, ThresholdPoses), MaxStationaryItems)
    \cup StageLists(StageRecords(0..2, PipelinePoses), MaxFilterItems)

InitStages ==
    \E list \in StageInputs :
        InitFrom(CalibA, MaxStageRig + 1, TrackA(MaxStageRig + 1), list, TRUE, 1)

StageNames == {"_filter_outlier_constraints", "_update_stationary_constraints"}

\* the dicts at hand: the one loaded, and the one the previous call returned
StageArguments ==
    {all_constraints} \cup (IF pc = "done" /\ op \in StageNames THEN {ret} ELSE {})

\* what a holder of the dict held holds after a call that was given the dict
\* cs and left it as after
HeldAfter(held, cs, after) == IF held = cs THEN after ELSE held

FilterOutlierConstraints(cs) ==
    /\ Finish("_filter_outlier_constraints", << cs >>,
              Returned(filter_outlier_constraints(cs), 0))
    /\ all_constraints' = HeldAfter(all_constraints, cs, constraints_after_filter(cs))
    /\ filtered_constraints' =
          HeldAfter(filtered_constraints, cs, constraints_after_filter(cs))
    /\ constraints' = HeldAfter(constraints, cs, constraints_after_filter(cs))
    /\ UNCHANGED << cam_T_imu_poses, cam2_J_imu_relative, num_rig_poses, fastlio_poses,
                    add_backbone, subsample, unique_pairs, kept_priors >>

UpdateStationaryConstraints(cs) ==
    /\ Finish("_update_stationary_constraints", << cs >>,
              Returned(update_stationary_constraints(cs), 0))
    /\ all_constraints' = HeldAfter(all_constraints, cs, constraints_after_update(cs))
    /\ filtered_constraints' =
          HeldAfter(filtered_constraints, cs, constraints_after_update(cs))
    /\ constraints' = HeldAfter(constraints, cs, constraints_after_update(cs))
    /\ UNCHANGED << cam_T_imu_poses, cam2_J_imu_relative, num_rig_poses, fastlio_poses,
                    add_backbone, subsample, unique_pairs, kept_priors >>

NextStages ==
    \/ \E cs \in StageArguments : FilterOutlierConstraints(cs)
    \/ \E cs \in StageArguments : UpdateStationaryConstraints(cs)

SpecStages == InitStages /\ [][NextStages]_vars

---------------------------------------------------------------------------
(* The loader with all its operations: the three methods of Spec and the    *)
(* two constraint stages, called on the dict the constructor loaded and on   *)
(* what the previous stage call returned                                     *)

NextLoaded ==
    \/ \E i1 \in Images, i2 \in Images : GetRelativePosePrior(i1, i2)
    \/ \E index \in Images : GetCameraPose(index)
    \/ GetRelativePosePriorsEnter
    \/ PdbContinue
    \/ Return
    \/ pc # "pdb" /\ \E cs \in StageArguments : FilterOutlierConstraints(cs)
    \/ pc # "pdb" /\ \E cs \in StageArguments : UpdateStationaryConstraints(cs)

SpecLoaded == Init /\ [][NextLoaded]_vars

---------------------------------------------------------------------------
(* The pair-set builder on its own: a caller that calls                     *)
(* get_relative_pose_priors, answers the debugger, keeps what the call gave  *)
(* and calls again                                                           *)

\* the largest number of rig poses of a loader whose pair set is built
MaxBuilderRigs == 3

\* the largest number of records of such a loader
MaxBuilderRecords == 2

\* The order of the dict's items does not reach get_relative_pose_priors (the
\* pairs go into a set): the lists are taken with their keys (a, b) ascending.
BuilderRecordLists ==
    {list \in UNION {[1..m -> StageRecords(0..(MaxBuilderRigs - 1), RecordPoses)]
                        : m \in 0..MaxBuilderRecords} :
        \A i \in 1..Len(list), j \in 1..Len(list) :
            i < j => \/ list[i].a < list[j].a
                     \/ (list[i].a = list[j].a /\ list[i].b < list[j].b)}

InitBuilder ==
    \E calibration \in Calibrations, n \in 1..MaxBuilderRigs, list \in BuilderRecordLists,
       backbone \in BOOLEAN, step \in {1, 2} :
        \E track \in Tracks(n) :
            InitFrom(calibration, n, track, list, backbone, step)

\* the caller keeps the outcome of get_relative_pose_priors (the dict, or the
\* exception); the loader is ready for the next call
KeepPriors ==
    /\ pc = "done"
    /\ op = "get_relative_pose_priors"
    /\ kept_priors' = Some([ret |-> ret, exc |-> exc])
    /\ pc' = "idle"
    /\ op' = ""
    /\ args' = << >>
    /\ ret' = None
    /\ exc' = ""
    /\ branch' = 0
    /\ UNCHANGED << loaderVars, unique_pairs >>

NextBuilder ==
    \/ GetRelativePosePriorsEnter
    \/ PdbContinue
    \/ KeepPriors

SpecBuilder == InitBuilder /\ [][NextBuilder]_vars

---------------------------------------------------------------------------
(* Properties *)

Called(name) == pc = "done" /\ op = name

\* the rig and camera indices of the two arguments of get_relative_pose_prior
Rig1 == rig_from_image(args[1])
Rig2 == rig_from_image(args[2])
Cam1 == camera_from_image(args[1])
Cam2 == camera_from_image(args[2])

\* C1: the three index maps are mutually inverse: rebuilding an image index
\* from its rig and camera gives the index back, and the rig and the camera of
\* the image built from (r, c) with c in 0..4 are r and c.
IndexMapsAreInverse ==
    /\ Called("rig_from_image") =>
          image_from_rig_and_camera(ret, camera_from_image(args[1])) = args[1]
    /\ Called("camera_from_image") =>
          /\ ret \in Cams
          /\ image_from_rig_and_camera(rig_from_image(args[1]), ret) = args[1]
    /\ Called("image_from_rig_and_camera") =>
          /\ rig_from_image(ret) = args[1]
          /\ camera_from_image(ret) = args[2]

IndexMapsWitness ==
    /\ Called("image_from_rig_and_camera")
    /\ args = << 3, 4 >>
    /\ ret = 19

\* C2: for two images of one rig get_relative_pose_prior returns, whatever the
\* constraints and the odometry, a HARD prior with the fixed hard covariance
\* whose value v is camTimu[cam(i1)] composed with the inverse of
\* camTimu[cam(i2)], that is, v composed with camTimu[cam(i2)] is
\* camTimu[cam(i1)].
SameRigPriorIsHard ==
    (Called("get_relative_pose_prior") /\ Rig1 = Rig2) =>
        /\ exc = ""
        /\ Len(ret) = 1
        /\ ret[1].type = "HARD_CONSTRAINT"
        /\ ret[1].covariance = Diag6(1, 1)
        /\ Compose(ret[1].value, cam_T_imu_poses[Cam2]) = cam_T_imu_poses[Cam1]
        /\ ret[1].value = Compose(cam_T_imu_poses[Cam1], Inverse(cam_T_imu_poses[Cam2]))

\* the reference camera paired with itself on a rig that has a constraint to itself
SameRigPriorWitness ==
    /\ Called("get_relative_pose_prior")
    /\ args[1] = args[2]
    /\ Cam1 = 2
    /\ << Rig1, Rig2 >> \in Keys(constraints)
    /\ ret[1].type = "HARD_CONSTRAINT"

\* the prior derived from constraint c, the way branch 2 is specified
PriorFromConstraint(c) ==
    LET cam2 == cam_T_imu_poses[2]
        J == AdjointMap(cam2)
        v == Compose(cam2, Compose(c.aTb, Inverse(cam2)))
    IN  [value |-> v,
         covariance |-> MatMul(J, MatMul(c.cov, Transpose(J))),
         type |-> IF EqualsIdentity(v) THEN "HARD_CONSTRAINT" ELSE "SOFT_CONSTRAINT"]

\* C3: for two reference-camera images of different rigs r1, r2 with an entry
\* (r1, r2) in the constraint map, the prior has the value camTimu[2] aTb
\* camTimu[2]^-1, the covariance J cov J^T, and is HARD exactly when the value
\* is within tolerance of the identity, SOFT otherwise.
ConstraintPriorIsPropagated ==
    (/\ Called("get_relative_pose_prior")
     /\ Rig1 # Rig2 /\ Cam1 = 2 /\ Cam2 = 2
     /\ << Rig1, Rig2 >> \in Keys(constraints)) =>
        /\ exc = ""
        /\ ret = Some(PriorFromConstraint(Lookup(constraints, << Rig1, Rig2 >>)))

\* a stationary constraint gives a HARD prior
ConstraintPriorWitness ==
    /\ Called("get_relative_pose_prior")
    /\ Rig1 # Rig2 /\ Cam1 = 2 /\ Cam2 = 2
    /\ << Rig1, Rig2 >> \in Keys(constraints)
    /\ ret[1].type = "HARD_CONSTRAINT"
    /\ ret[1].covariance # STATIONARY_POSE_PRIOR_COVARIANCE

\* C4: a constraint between two rigs is found whichever way round it is
\* stored: for reference-camera images on rigs r1 # r2 with a constraint keyed
\* (r1, r2) or (r2, r1), get_relative_pose_prior leaves by the constraint
\* branch, never by the odometry fallback.
ConstraintFoundInEitherDirection ==
    (/\ Called("get_relative_pose_prior")
     /\ Rig1 # Rig2 /\ Cam1 = 2 /\ Cam2 = 2
     /\ (<< Rig1, Rig2 >> \in Keys(constraints) \/ << Rig2, Rig1 >> \in Keys(constraints))) =>
        branch = 2

\* C5: for two reference-camera images of different rigs with no constraint
\* for the rig pair and both rigs inside the odometry track, the prior is SOFT,
\* its value is camTimu[2] (odom[r1]^-1 odom[r2]) camTimu[2]^-1 and its
\* covariance is the one backbone covariance.
BackbonePriorIsSoft ==
    (/\ Called("get_relative_pose_prior")
     /\ Rig1 # Rig2 /\ Cam1 = 2 /\ Cam2 = 2
     /\ << Rig1, Rig2 >> \notin Keys(constraints)
     /\ << Rig2, Rig1 >> \notin Keys(constraints)
     /\ Rig1 < Len(fastlio_poses) /\ Rig2 < Len(fastlio_poses)) =>
        /\ exc = ""
        /\ Len(ret) = 1
        /\ ret[1].type = "SOFT_CONSTRAINT"
        /\ ret[1].covariance = Diag6(52359878, 100000000)
        /\ ret[1].value =
              Compose(cam_T_imu_poses[2],
                      Compose(Compose(Inverse(fastlio_poses[Rig1 + 1]),
                                      fastlio_poses[Rig2 + 1]),
                              Inverse(cam_T_imu_poses[2])))

\* the fallback taken from the later rig to the earlier one
BackbonePriorWitness ==
    /\ Called("get_relative_pose_prior")
    /\ Rig1 > Rig2 /\ Cam1 = 2 /\ Cam2 = 2
    /\ constraints = << >>
    /\ branch = 3
    /\ exc = ""
    /\ ret[1].value # Pose3Identity

\* a pair of images on different rigs, not both on the reference camera
CrossRigOffReference(i1, i2) ==
    /\ rig_from_image(i1) # rig_from_image(i2)
    /\ (camera_from_image(i1) # 2 \/ camera_from_image(i2) # 2)

\* C6: for images on different rigs, at least one of them not on camera 2,
\* get_relative_pose_prior returns None, and no such pair is a key of the map
\* get_relative_pose_priors returns.
NoPriorOffReference ==
    /\ (Called("get_relative_pose_prior") /\ CrossRigOffReference(args[1], args[2])) =>
          (exc = "" /\ ret = None)
    /\ (Called("get_relative_pose_priors") /\ exc = "") =>
          \A pair \in DOMAIN ret : ~CrossRigOffReference(pair[1], pair[2])

\* camera 2 of one rig against camera 0 of another, with constraints loaded
NoPriorOffReferenceWitness ==
    /\ Called("get_relative_pose_prior")
    /\ Rig1 # Rig2 /\ Cam1 = 2 /\ Cam2 = 0
    /\ constraints # << >>
    /\ ret = None

IsOutlier(cs, i) ==
    LET a == cs[i].key[1]
        b == cs[i].key[2]
        c == Min(a, b)
        d == Max(a, b)
        Lesser(step) ==
            \E j \in 1..Len(cs) :
                /\ Canonical(cs[j].key) = << c, d + step >>
                /\ TranslationNorm(cs[i].val.aTb) - TranslationNorm(cs[j].val.aTb) > 100
    IN  Abs(a - b) = 1 /\ (Lesser(1) \/ Lesser(2))

\* at most one item per unordered rig pair
OnePerUnorderedPair(cs) ==
    \A i \in 1..Len(cs), j \in 1..Len(cs) :
        Canonical(cs[i].key) = Canonical(cs[j].key) => i = j

\* what C8 says of the call at hand
FlagsExactlyTheOutliers ==
    \A i \in 1..Len(args[1]) :
        Lookup(ret, args[1][i].key) =
            IF IsOutlier(args[1], i)
            THEN [args[1][i].val EXCEPT !.cov = FILTERED_COVARIANCE]
            ELSE args[1][i].val

\* C8: _filter_outlier_constraints gives a constraint the wide covariance
\* exactly when it is a 1-step constraint and a constraint for the 2-step pair
\* (c, d + 1) or the 3-step pair (c, d + 2) has a translation magnitude smaller
\* than its own by more than 0.1; every other constraint is returned unchanged.
FilterFlagsExactly ==
    Called("_filter_outlier_constraints") => FlagsExactlyTheOutliers

\* The statement of C8 holds of the dicts with one item per unordered pair
FilterFlagsExactlyOnePerPair ==
    (Called("_filter_outlier_constraints") /\ OnePerUnorderedPair(args[1])) =>
        FlagsExactlyTheOutliers

\* scenario B: (2,3) of magnitude 5.0 with (2,4) of magnitude 4.8
ScenarioBWitness ==
    /\ Called("_filter_outlier_constraints")
    /\ Keys(args[1]) = {<< 2, 3 >>, << 2, 4 >>}
    /\ Lookup(args[1], << 2, 3 >>).aTb = P(0, 0, 5000)
    /\ Lookup(args[1], << 2, 4 >>).aTb = P(0, 0, 4800)
    /\ Lookup(ret, << 2, 3 >>).cov = FILTERED_COVARIANCE
    /\ Lookup(ret, << 2, 3 >>).aTb = P(0, 0, 5000)

\* the item _update_stationary_constraints stores for a stationary constraint
Reclassified(it) ==
    [key |-> it.key,
     val |-> [a |-> it.val.a, b |-> it.val.b, aTb |-> Pose3Identity,
              cov |-> Diag6(10, 10), counts |-> it.val.counts]]

\* C9, as stated: a constraint is reclassified exactly when its rotation norm
\* is below the rotation threshold and its translation norm is below the
\* translation threshold; with a norm equal to its threshold it passes
\* through unchanged.  (No whole number of micro-radians equals the rotation
\* threshold: below it means at most 8726.)
StationaryBelowThresholds ==
    Called("_update_stationary_constraints") =>
        /\ Keys(ret) = Keys(args[1])
        /\ Len(ret) = Len(args[1])
        /\ \A i \in 1..Len(args[1]) :
              ret[i] = IF /\ RotationNorm(args[1][i].val.aTb) <= 8726
                          /\ TranslationNorm(args[1][i].val.aTb) < 20
                       THEN Reclassified(args[1][i])
                       ELSE args[1][i]

\* C9, amended: a constraint is reclassified exactly when neither norm exceeds
\* its threshold (a norm equal to its threshold counts as stationary); every
\* other constraint passes through unchanged, and the keys are those of the
\* input.
StationaryUpToThresholds ==
    Called("_update_stationary_constraints") =>
        /\ Keys(ret) = Keys(args[1])
        /\ Len(ret) = Len(args[1])
        /\ \A i \in 1..Len(args[1]) :
              ret[i] = IF /\ RotationNorm(args[1][i].val.aTb) <= 8726
                          /\ TranslationNorm(args[1][i].val.aTb) <= 20
                       THEN Reclassified(args[1][i])
                       ELSE args[1][i]

\* a constraint with a translation norm equal to the threshold is reclassified
StationaryAtThresholdWitness ==
    /\ Called("_update_stationary_constraints")
    /\ \E i \in 1..Len(args[1]) :
          /\ TranslationNorm(args[1][i].val.aTb) = 20
          /\ ret[i].val.aTb = Pose3Identity
          /\ ret[i].val.cov = STATIONARY_POSE_PRIOR_COVARIANCE

\* the constraint (0, 1) of scenario A: rotation norm 0.01, translation norm 0.005
IsScenarioA(it) ==
    /\ it.key = << 0, 1 >>
    /\ RotationNorm(it.val.aTb) = 10000
    /\ TranslationNorm(it.val.aTb) = 5

\* C10, as stated: the constraint of scenario A comes out of the
\* reclassification with the identity transform and the stationary covariance.
ScenarioAReclassified ==
    Called("_update_stationary_constraints") =>
        \A i \in 1..Len(args[1]) :
            IsScenarioA(args[1][i]) =>
                /\ ret[i].val.aTb = Pose3Identity
                /\ ret[i].val.cov = Diag6(10, 10)

\* C10, amended: a rotation norm of 0.01 rad is above the threshold of 0.5
\* degrees (0.0087 rad), so the constraint of scenario A passes through
\* unchanged; a constraint (0, 1) with rotation norm 0.008 and translation norm
\* 0.005 comes out with the identity transform and the stationary covariance.
ScenarioAPassesThrough ==
    Called("_update_stationary_constraints") =>
        \A i \in 1..Len(args[1]) :
            /\ IsScenarioA(args[1][i]) => ret[i] = args[1][i]
            /\ (/\ args[1][i].key = << 0, 1 >>
                /\ RotationNorm(args[1][i].val.aTb) = 8000
                /\ TranslationNorm(args[1][i].val.aTb) = 5) =>
                  /\ ret[i].val.aTb = Pose3Identity
                  /\ ret[i].val.cov = Diag6(10, 10)
                  /\ ret[i].val.counts = args[1][i].val.counts

ScenarioAWitness ==
    /\ Called("_update_stationary_constraints")
    /\ Len(args[1]) = 1
    /\ IsScenarioA(args[1][1])
    /\ args[1][1].val.cov = RawCov
    /\ ret = args[1]

\* C11: _update_stationary_constraints is idempotent: applied to the dict a
\* call of it returned, it returns that dict again (the same keys, and under
\* every key the same endpoints, transform, covariance and count).
StationaryIsIdempotent ==
    Called("_update_stationary_constraints") =>
        /\ update_stationary_constraints(ret) = ret
        /\ (args[1] = update_stationary_constraints(all_constraints)) => ret = args[1]

\* the second of two calls in a row, the first of which reclassified a
\* constraint and left another one as it was
StationaryIsIdempotentWitness ==
    /\ Called("_update_stationary_constraints")
    /\ args[1] = update_stationary_constraints(all_constraints)
    /\ args[1] # all_constraints
    /\ \E i \in 1..Len(args[1]) : args[1][i] = all_constraints[i]
    /\ ret = args[1]

\* get_relative_pose_priors returned its dict
PriorsReturned == Called("get_relative_pose_priors") /\ exc = ""

\* the keys of the returned dict that hold the images x and y, either way round
KeysFor(x, y) == {<< x, y >>, << y, x >>} \cap DOMAIN ret

\* the keys of the returned dict that join two different cameras of one rig
StarKeys ==
    {pair \in DOMAIN ret : /\ rig_from_image(pair[1]) = rig_from_image(pair[2])
                          /\ pair[1] # pair[2]}

\* the returned dict joins camera c of rig r to the reference camera by a HARD prior
HasStar(r, c) ==
    /\ KeysFor(image_from_rig_and_camera(r, c), image_from_rig_and_camera(r, 2)) # {}
    /\ \A pair \in KeysFor(image_from_rig_and_camera(r, c),
                            image_from_rig_and_camera(r, 2)) :
          ret[pair].type = "HARD_CONSTRAINT"

NoUnorderedPairTwice ==
    PriorsReturned =>
        /\ \A pair \in DOMAIN ret : pair[1] < pair[2]
        /\ \A pair \in DOMAIN ret : pair[1] # pair[2] => << pair[2], pair[1] >> \notin DOMAIN ret

\* C14: for every key (a, b) of the final constraint dict with a # b, the
\* dict get_relative_pose_priors returns has a prior under the pair of the
\* reference-camera images of rigs a and b, and it is the prior derived from
\* that constraint (its value and covariance), not the odometry fallback.
ConstraintPairsAreConstraintBacked ==
    PriorsReturned =>
        \A key \in Keys(constraints) :
            key[1] # key[2] =>
                LET pair == << image_from_rig_and_camera(key[1], 2),
                               image_from_rig_and_camera(key[2], 2) >>
                IN  /\ pair \in DOMAIN ret
                    /\ ret[pair] = PriorFromConstraint(Lookup(constraints, key))
                    /\ ret[pair].covariance # CAM2_BACKBONE_POSE_PRIOR_COVARIANCE

\* a constraint stored from the later rig to the earlier one, next to a
\* backbone pair of the same two rigs
ConstraintPairsWitness ==
    /\ PriorsReturned
    /\ add_backbone
    /\ << 2, 1 >> \in Keys(constraints)
    /\ << 1, 2 >> \notin Keys(constraints)
    /\ ret[<< 12, 7 >>] = PriorFromConstraint(Lookup(constraints, << 2, 1 >>))
    /\ ret[<< 7, 12 >>].covariance = CAM2_BACKBONE_POSE_PRIOR_COVARIANCE

\* C15: with the backbone enabled, the dict get_relative_pose_priors returns
\* has, for every r with 0 <= r < num_rig_poses - 1, a prior under the pair of
\* the reference-camera images of rigs r and r + 1, whether or not a
\* constraint exists for (r, r + 1).
BackboneJoinsConsecutiveRigs ==
    (PriorsReturned /\ add_backbone) =>
        \A r \in 0..(num_rig_poses - 2) :
            << image_from_rig_and_camera(r, 2), image_from_rig_and_camera(r + 1, 2) >>
                \in DOMAIN ret

\* three rigs, every second rig in the star, a constraint for (0, 1) and none
\* for (1, 2)
BackboneWitness ==
    /\ PriorsReturned
    /\ add_backbone /\ num_rig_poses = 3 /\ subsample = 2
    /\ Keys(constraints) = {<< 0, 1 >>}
    /\ ret[<< 2, 7 >>] = PriorFromConstraint(Lookup(constraints, << 0, 1 >>))
    /\ ret[<< 7, 12 >>].covariance = CAM2_BACKBONE_POSE_PRIOR_COVARIANCE
    /\ ret[<< 7, 12 >>].type = "SOFT_CONSTRAINT"

BeyondTrack(rig_idx) == rig_idx >= Len(fastlio_poses)

\* C17: a rig index with no odometry entry is treated as absent, not as an
\* error: get_camera_pose of an image of such a rig returns None;
\* get_relative_pose_prior of two reference-camera images without a
\* constraint, one of them on such a rig, returns None and does not raise;
\* and so get_relative_pose_priors with the backbone enabled does not raise.
ShortTrackIsAbsent ==
    /\ (Called("get_camera_pose") /\ BeyondTrack(rig_from_image(args[1]))) =>
          (exc = "" /\ ret = None)
    /\ (/\ Called("get_relative_pose_prior")
        /\ Rig1 # Rig2 /\ Cam1 = 2 /\ Cam2 = 2
        /\ << Rig1, Rig2 >> \notin Keys(constraints)
        /\ << Rig2, Rig1 >> \notin Keys(constraints)
        /\ (BeyondTrack(Rig1) \/ BeyondTrack(Rig2))) =>
          (exc = "" /\ ret = None)
    /\ (Called("get_relative_pose_priors") /\ add_backbone) => exc = ""

\* C18: get_relative_pose_priors never suspends: once called it is at no
\* point waiting for an interactive command before it returns.
PriorsNeverSuspend == pc # "pdb"

\* C19: the constraint dict the loader holds after construction has at most
\* one constraint per unordered rig pair, never both a key (a, b) and a key
\* (b, a), whatever records were loaded.
OneConstraintPerUnorderedPair ==
    \A k1 \in Keys(constraints), k2 \in Keys(constraints) :
        Canonical(k1) = Canonical(k2) => k1 = k2

Symmetric(A) == \A i \in Idx6, j \in Idx6 : A[i][j] = A[j][i]

\* C21: covariance propagation preserves symmetry: the constraint
\* covariances being symmetric, the covariance J cov J^T of every
\* constraint-backed prior, and so every covariance of the dict
\* get_relative_pose_priors returns, is symmetric.
PropagationKeepsSymmetry ==
    (PriorsReturned /\ \A i \in 1..Len(constraints) : Symmetric(constraints[i].val.cov)) =>
        /\ \A pair \in DOMAIN ret : Symmetric(ret[pair].covariance)
        /\ \A key \in Keys(constraints) :
              Symmetric(MatMul(cam2_J_imu_relative,
                               MatMul(Lookup(constraints, key).cov,
                                      Transpose(cam2_J_imu_relative))))

\* a measured covariance that is not diagonal, carried through an adjoint
\* that changes it
PropagationWitness ==
    /\ PriorsReturned
    /\ << 0, 1 >> \in Keys(constraints)
    /\ Lookup(constraints, << 0, 1 >>).cov = RawCov
    /\ ret[<< 2, 7 >>].covariance # RawCov
    /\ ret[<< 2, 7 >>].covariance[1][2] # 0
    /\ ret[<< 2, 7 >>].covariance[1][2] = ret[<< 2, 7 >>].covariance[2][1]

\* C22: only the backbone activates the odometry fallback: with add_backbone
\* False every prior of the returned dict between two rigs is the one derived
\* from the constraint of that rig pair, and no entry has the backbone
\* covariance.
OnlyBackboneUsesOdometry ==
    (PriorsReturned /\ ~add_backbone) =>
        \A pair \in DOMAIN ret :
            /\ ret[pair].covariance # CAM2_BACKBONE_POSE_PRIOR_COVARIANCE
            /\ rig_from_image(pair[1]) # rig_from_image(pair[2]) =>
                  LET key == << rig_from_image(pair[1]), rig_from_image(pair[2]) >>
                  IN  /\ key \in Keys(constraints)
                      /\ ret[pair] = PriorFromConstraint(Lookup(constraints, key))

\* three rigs with a constraint between the first and the last and odometry
\* for two of them only
OnlyBackboneWitness ==
    /\ PriorsReturned
    /\ ~add_backbone
    /\ num_rig_poses = 3 /\ Len(fastlio_poses) = 2
    /\ Keys(constraints) = {<< 0, 2 >>}
    /\ << 2, 12 >> \in DOMAIN ret
    /\ << 2, 7 >> \notin DOMAIN ret
    /\ << 7, 12 >> \notin DOMAIN ret

\* item i of the loaded dict was given the wide covariance by the filter
FlaggedByFilter(i) ==
    /\ all_constraints[i].val.cov # FILTERED_COVARIANCE
    /\ filtered_constraints[i].val.cov = FILTERED_COVARIANCE

\* what C23 says of the dicts of the constructor
FlaggedKeepTransform ==
    \A i \in 1..Len(all_constraints) :
        FlaggedByFilter(i) =>
            /\ constraints[i].val.aTb = all_constraints[i].val.aTb
            /\ constraints[i].val.cov = FILTERED_COVARIANCE

\* C23: in the constructor (outlier filter, then stationary reclassifier) a
\* constraint that the filter gave the wide covariance is never reclassified
\* as stationary: in the final dict it has its original transform and the wide
\* covariance.
FlaggedIsNeverStationary == FlaggedKeepTransform

\* The statement of C23 holds of the loaders whose loaded dict has one
\* constraint per unordered rig pair
FlaggedIsNeverStationaryOnePerPair ==
    OnePerUnorderedPair(all_constraints) => FlaggedKeepTransform

\* the covariance cov carried through the adjoint of the reference camera
ThroughAdjoint(cov) ==
    LET J == AdjointMap(cam_T_imu_poses[2])
    IN  MatMul(J, MatMul(cov, Transpose(J)))

\* C24: every HARD prior of the dict get_relative_pose_priors returns has the
\* fixed hard covariance (a pair on one rig) or the stationary covariance
\* carried through the adjoint (a constraint whose final transform is the
\* identity), never the wide covariance of the filter, the backbone
\* covariance or a measured covariance; every constraint of the final dict
\* whose transform is the identity has the stationary covariance.
HardPriorsAreTight ==
    /\ \A i \in 1..Len(constraints) :
          constraints[i].val.aTb = Pose3Identity =>
              constraints[i].val.cov = Diag6(10, 10)
    /\ PriorsReturned =>
          LET hard == {pair \in DOMAIN ret : ret[pair].type = "HARD_CONSTRAINT"}
              stationary == ThroughAdjoint(Diag6(10, 10))
              loose == {FILTERED_COVARIANCE, ThroughAdjoint(FILTERED_COVARIANCE),
                        CAM2_BACKBONE_POSE_PRIOR_COVARIANCE,
                        RawCov, ThroughAdjoint(RawCov)}
          IN  \A pair \in hard :
                  /\ ret[pair].covariance =
                        IF rig_from_image(pair[1]) = rig_from_image(pair[2])
                        THEN Diag6(1, 1)
                        ELSE stationary
                  /\ ret[pair].covariance \notin loose

\* a HARD prior from a constraint at rest next to a SOFT one from a constraint
\* in motion, the adjoint not the identity
HardPriorsWitness ==
    /\ PriorsReturned
    /\ Keys(constraints) = {<< 0, 1 >>, << 1, 2 >>}
    /\ ret[<< 2, 7 >>].type = "HARD_CONSTRAINT"
    /\ ret[<< 2, 7 >>].covariance = ThroughAdjoint(STATIONARY_POSE_PRIOR_COVARIANCE)
    /\ ret[<< 2, 7 >>].covariance # STATIONARY_POSE_PRIOR_COVARIANCE
    /\ ret[<< 7, 12 >>].type = "SOFT_CONSTRAINT"
    /\ ret[<< 7, 12 >>].covariance = ThroughAdjoint(RawCov)

\* C25: the pair-set builder discards no pair: every pair it enumerates is a
\* pair on one rig or a pair of two reference-camera images, so every pair
\* gets a prior, and the keys of the dict it returns are the pairs it
\* enumerated; with odometry for every rig it does return.
NoPairIsDiscarded ==
    /\ [](pc = "pdb" =>
            \A pair \in unique_pairs :
                \/ rig_from_image(pair[1]) = rig_from_image(pair[2])
                \/ camera_from_image(pair[1]) = 2 /\ camera_from_image(pair[2]) = 2)
    /\ [][(pc = "pdb" /\ pc' = "done") =>
              /\ exc' = "" => DOMAIN ret' = unique_pairs
              /\ Len(fastlio_poses) >= num_rig_poses => exc' = ""]_vars

\* twelve star pairs, a constraint from the last rig to the first, a
\* constraint of a rig with itself, and the two backbone pairs
NoPairIsDiscardedWitness ==
    /\ PriorsReturned
    /\ add_backbone /\ num_rig_poses = 3 /\ subsample = 1
    /\ Keys(constraints) = {<< 1, 1 >>, << 2, 0 >>}
    /\ DOMAIN ret = EnumeratedPairs
    /\ {<< 7, 7 >>, << 12, 2 >>, << 2, 7 >>, << 7, 12 >>} \subseteq DOMAIN ret
    /\ Cardinality(DOMAIN ret) = 16

\* the vertices joined to a vertex of seen by a path of edges, the edges
\* taken without direction
RECURSIVE ReachableFrom(_, _)
ReachableFrom(seen, edges) ==
    LET next == seen \cup {e[2] : e \in {d \in edges : d[1] \in seen}}
                     \cup {e[1] : e \in {d \in edges : d[2] \in seen}}
    IN  IF next = seen THEN seen ELSE ReachableFrom(next, edges)

\* C26: with the backbone enabled and subsample = 1, the undirected graph on
\* the image indices 0 .. 5 * num_rig_poses - 1 whose edges are the keys of the
\* dict get_relative_pose_priors returns is connected, whatever the
\* constraints.
PriorGraphIsConnected ==
    (PriorsReturned /\ add_backbone /\ subsample = 1) =>
        ReachableFrom({0}, DOMAIN ret) = Images

\* three rigs and no constraint: twelve star pairs and two backbone pairs
PriorGraphWitness ==
    /\ PriorsReturned
    /\ add_backbone /\ subsample = 1 /\ num_rig_poses = 3
    /\ constraints = << >>
    /\ Cardinality(DOMAIN ret) = 14
    /\ ReachableFrom({14}, DOMAIN ret) = 0..14

=============================================================================
